---- MODULE Spec2Model ----
(***************************************************************************)
(* Fund Performance Data Extractor (DataExtractor.py).                     *)
(*                                                                         *)
(* The script takes a list of uploaded files, routes each by file name to  *)
(* the PDF line parser or to the spreadsheet normaliser, accumulates the   *)
(* resulting data frames in all_data, and, when all_data is not empty,     *)
(* concatenates them and derives net_return_usd and three grouped views.   *)
(*                                                                         *)
(* Text is modelled by TLA+ strings and the Python string methods by       *)
(* operators that compute character by character.  Floating point values  *)
(* are modelled by exact fixed-point integers (see Scale); a cell without  *)
(* a value is NaN, as in a data frame.                                     *)
(***************************************************************************)
EXTENDS Integers, Sequences, FiniteSets, TLC

(***************************************************************************)
(* Python string methods                                                   *)
(***************************************************************************)
Char(s, i) == SubSeq(s, i, i)

\* sub in s
Contains(s, sub) ==
    \E i \in 1..(Len(s) - Len(sub) + 1) : SubSeq(s, i, i + Len(sub) - 1) = sub

\* s.split(sep), sep a single character
RECURSIVE Split(_, _)
Split(s, sep) ==
    IF ~Contains(s, sep)
    THEN <<s>>
    ELSE LET i == CHOOSE k \in 1..Len(s) :
                    /\ Char(s, k) = sep
                    /\ \A m \in 1..(k - 1) : Char(s, m) # sep
         IN  <<SubSeq(s, 1, i - 1)>> \o Split(SubSeq(s, i + 1, Len(s)), sep)

\* sep.join(parts)
RECURSIVE Join(_, _)
Join(parts, sep) ==
    IF Len(parts) = 0 THEN ""
    ELSE IF Len(parts) = 1 THEN parts[1]
    ELSE parts[1] \o sep \o Join(Tail(parts), sep)

Whitespace == {" ", "\t", "\n", "\r"}

\* s.strip()
RECURSIVE Strip(_)
Strip(s) ==
    IF Len(s) = 0 THEN s
    ELSE IF Char(s, 1) \in Whitespace THEN Strip(SubSeq(s, 2, Len(s)))
    ELSE IF Char(s, Len(s)) \in Whitespace THEN Strip(SubSeq(s, 1, Len(s) - 1))
    ELSE s

\* s.replace(old, new), old a single character
RECURSIVE Replace(_, _, _)
Replace(s, old, new) ==
    IF Len(s) = 0 THEN s
    ELSE (IF Char(s, 1) = old THEN new ELSE Char(s, 1))
         \o Replace(SubSeq(s, 2, Len(s)), old, new)

UpperCase == "ABCDEFGHIJKLMNOPQRSTUVWXYZ"
LowerCase == "abcdefghijklmnopqrstuvwxyz"

LowerChar(c) ==
    IF Contains(UpperCase, c)
    THEN Char(LowerCase, CHOOSE k \in 1..Len(UpperCase) : Char(UpperCase, k) = c)
    ELSE c

\* s.lower()
RECURSIVE Lower(_)
Lower(s) ==
    IF Len(s) = 0 THEN s
    ELSE LowerChar(Char(s, 1)) \o Lower(SubSeq(s, 2, Len(s)))

\* The characters of the inputs in code point order: the order in which
\* Python compares strings.
CodePoints == " %()-./0123456789ABCDEFGHIJKLMNOPQRSTUVWXYZ_abcdefghijklmnopqrstuvwxyz|"

Ord(c) == CHOOSE k \in 1..Len(CodePoints) : Char(CodePoints, k) = c

\* s < t for Python strings
RECURSIVE StrLess(_, _)
StrLess(s, t) ==
    IF Len(t) = 0 THEN FALSE
    ELSE IF Len(s) = 0 THEN TRUE
    ELSE IF Char(s, 1) = Char(t, 1)
         THEN StrLess(SubSeq(s, 2, Len(s)), SubSeq(t, 2, Len(t)))
         ELSE Ord(Char(s, 1)) < Ord(Char(t, 1))

Range(f) == {f[k] : k \in DOMAIN f}

Max(S) == CHOOSE m \in S : \A n \in S : n <= m
Min(S) == CHOOSE m \in S : \A n \in S : m <= n

(***************************************************************************)
(* difflib.SequenceMatcher and get_close_matches, as match_column calls    *)
(* them: no junk, and no autojunk because the second sequence (the alias)  *)
(* is shorter than 200 characters.  Windows are 1-based and half open.     *)
(***************************************************************************)

\* length of the common run of a and b that starts at a[i], b[j]
RECURSIVE RunLen(_, _, _, _, _, _)
RunLen(a, b, i, j, ahi, bhi) ==
    IF i < ahi /\ j < bhi /\ Char(a, i) = Char(b, j)
    THEN 1 + RunLen(a, b, i + 1, j + 1, ahi, bhi)
    ELSE 0

\* the block of size k at a[i] that starts earliest in b
EarliestInB(a, b, ahi, blo, bhi, k, i) ==
    [i |-> i,
     j |-> Min({j \in blo..(bhi - 1) : RunLen(a, b, i, j, ahi, bhi) = k}),
     k |-> k]

\* the block of size k that starts earliest in a, and of those earliest in b
EarliestBlock(a, b, alo, ahi, blo, bhi, k) ==
    IF k = 0 THEN [i |-> alo, j |-> blo, k |-> 0]
    ELSE EarliestInB(a, b, ahi, blo, bhi, k,
                     Min({i \in alo..(ahi - 1) :
                             \E j \in blo..(bhi - 1) : RunLen(a, b, i, j, ahi, bhi) = k}))

\* SequenceMatcher.find_longest_match: the longest block, of those the one
\* that starts earliest in a, of those the one that starts earliest in b.
find_longest_match(a, b, alo, ahi, blo, bhi) ==
    EarliestBlock(a, b, alo, ahi, blo, bhi,
                  Max({0} \cup {RunLen(a, b, i, j, ahi, bhi) :
                                   i \in alo..(ahi - 1), j \in blo..(bhi - 1)}))

\* the sum of the sizes of SequenceMatcher.get_matching_blocks: the longest
\* block m of the window, and the blocks to its left and to its right
RECURSIVE MatchCount(_, _, _, _, _, _)
BlockSizes(a, b, alo, ahi, blo, bhi, m) ==
    IF m.k = 0 THEN 0
    ELSE m.k
         + (IF alo < m.i /\ blo < m.j
            THEN MatchCount(a, b, alo, m.i, blo, m.j) ELSE 0)
         + (IF m.i + m.k < ahi /\ m.j + m.k < bhi
            THEN MatchCount(a, b, m.i + m.k, ahi, m.j + m.k, bhi) ELSE 0)

MatchCount(a, b, alo, ahi, blo, bhi) ==
    BlockSizes(a, b, alo, ahi, blo, bhi, find_longest_match(a, b, alo, ahi, blo, bhi))

\* SequenceMatcher.ratio() = 2.0 * matches / length as the exact fraction
\* [num, den]; 1.0 when both strings are empty.
Ratio(x, word) ==
    IF Len(x) + Len(word) = 0 THEN [num |-> 1, den |-> 1]
    ELSE [num |-> 2 * MatchCount(x, word, 1, Len(x) + 1, 1, Len(word) + 1),
          den |-> Len(x) + Len(word)]

\* cutoff=0.6
CutoffNum == 6
CutoffDen == 10

RatioLess(r, q) == r.num * q.den < q.num * r.den

\* score >= cutoff (real_quick_ratio and quick_ratio are upper bounds of
\* ratio, so the conjunction of the three tests of get_close_matches is the
\* test of ratio)
AtLeastCutoff(r) == r.num * CutoffDen >= CutoffNum * r.den

\* (score, x) < (score', x'): the order of the tuples get_close_matches ranks
ScoredLess(p, q) ==
    \/ RatioLess(p.score, q.score)
    \/ /\ ~RatioLess(q.score, p.score)
       /\ StrLess(p.x, q.x)

\* heapq.nlargest(1, result)
Largest(result) ==
    IF result = {} THEN <<>>
    ELSE <<(CHOOSE p \in result : \A q \in result : ~ScoredLess(p, q)).x>>

\* get_close_matches(word, possibilities, n=1, cutoff=0.6): a list of at
\* most one element, the x of the largest (score, x) at or above the cutoff
get_close_matches(word, possibilities) ==
    Largest({p \in {[score |-> Ratio(possibilities[k], word), x |-> possibilities[k]] :
                       k \in 1..Len(possibilities)} :
                AtLeastCutoff(p.score)})

None == "<None>"

\* def match_column(possible_names, available_columns)
\* a matcher that returns the closest column over all aliases
ClosestOverall(possible_names, available_columns) ==
    LET scored == {[score |-> Ratio(c, Lower(a)), x |-> c] :
                      a \in Range(possible_names), c \in Range(available_columns)}
        best == Largest({p \in scored : AtLeastCutoff(p.score)})
    IN  IF Len(best) = 0 THEN None ELSE best[1]

RECURSIVE match_column(_, _)
match_column(possible_names, available_columns) ==
    IF Len(possible_names) = 0 THEN None
    ELSE LET match == get_close_matches(Lower(possible_names[1]), available_columns)
         IN  IF Len(match) > 0 THEN match[1]
             ELSE match_column(Tail(possible_names), available_columns)

(***************************************************************************)
(* Values.  A float is the integer value * Scale, exact for the inputs     *)
(* used (at most two decimals before the division by 100); a product of    *)
(* two floats carries Scale * Scale.  NaN is the missing value of a data   *)
(* frame (an empty spreadsheet cell, None, float("nan")).                  *)
(***************************************************************************)
\* "/ 100"
Percent == 100
Scale == Percent * Percent
FracDigits == "0000"

Num(n) == [t |-> "num", n |-> n, s |-> ""]
Str(s) == [t |-> "str", n |-> 0, s |-> s]
NaN == [t |-> "nan", n |-> 0, s |-> ""]

Digits == "0123456789"

IsDigits(s) == \A k \in 1..Len(s) : Contains(Digits, Char(s, k))

RECURSIVE NatVal(_)
NatVal(s) ==
    IF Len(s) = 0 THEN 0
    ELSE 10 * NatVal(SubSeq(s, 1, Len(s) - 1))
         + (CHOOSE d \in 0..9 : Char(Digits, d + 1) = Char(s, Len(s)))

\* float(s) for the strings of the inputs: surrounding whitespace, a sign,
\* digits with an optional decimal point, or nan.  Anything else raises
\* ValueError.  (Exponents, underscores and infinities do not occur.)
ParseFloat(s0) ==
    LET s == Strip(s0)
        signed == Len(s) > 0 /\ Char(s, 1) \in {"+", "-"}
        sign == IF Len(s) > 0 /\ Char(s, 1) = "-" THEN -1 ELSE 1
        body == IF signed THEN SubSeq(s, 2, Len(s)) ELSE s
        parts == Split(body, ".")
        ip == parts[1]
        fp == IF Len(parts) > 1 THEN parts[2] ELSE ""
    IN  IF Lower(body) = "nan" THEN [ok |-> TRUE, val |-> NaN]
        ELSE IF /\ Len(parts) <= 2
                /\ IsDigits(ip) /\ IsDigits(fp)
                /\ Len(ip) + Len(fp) > 0
             THEN [ok |-> TRUE,
                   val |-> Num(sign * (NatVal(ip) * Scale
                               + NatVal(SubSeq(fp \o FracDigits, 1, Len(FracDigits)))))]
             ELSE [ok |-> FALSE, val |-> NaN]

\* x / 100
Div100(v) == IF v.t = "num" THEN Num(v.n \div Percent) ELSE v

(***************************************************************************)
(* Data frames: the list of column names and the rows, each a function     *)
(* from column name to value.                                              *)
(***************************************************************************)
Canonical == <<"fund_name", "return", "aum", "strategy">>

\* pd.DataFrame(data) for a list of dicts: no column at all when the list is
\* empty
DataFrame(dicts) ==
    [columns |-> IF Len(dicts) = 0 THEN <<>> ELSE Canonical, rows |-> dicts]

\* df[name] = values (one value per row): replaces the column, or adds it
\* at the end
SetColumn(df, name, values) ==
    [columns |-> IF name \in Range(df.columns) THEN df.columns
                 ELSE Append(df.columns, name),
     rows |-> [k \in 1..Len(df.rows) |->
                 [c \in DOMAIN df.rows[k] \cup {name} |->
                     IF c = name THEN values[k] ELSE df.rows[k][c]]]]

\* df[[...names]]
Project(df, names) ==
    [columns |-> names,
     rows |-> [k \in 1..Len(df.rows) |-> [c \in Range(names) |-> df.rows[k][c]]]]

Column(df, name) == [k \in 1..Len(df.rows) |-> df.rows[k][name]]

(***************************************************************************)
(* 3. PDF parser                                                           *)
(***************************************************************************)
\* text = "\n".join(page texts); lines = text.split("\n")
PdfLines(pages) == Split(Join(pages, "\n"), "\n")

\* a parser that forgets the separator sentinel
IsCandidateKeepsSeparator(line) ==
    /\ Contains(line, "|")
    /\ ~Contains(line, "Fund Name")

\* the test of line 33
IsCandidate(line) ==
    /\ Contains(line, "|")
    /\ ~Contains(line, "Fund Name")
    /\ ~Contains(line, "---")

\* the body of the try of lines 34-45: the dict appended, or the exception
ParseLine(line) ==
    LET sp == Split(line, "|")
        parts == [k \in 1..Len(sp) |-> Strip(sp[k])]
        ret == IF Len(parts) >= 2 THEN ParseFloat(Replace(parts[2], "%", ""))
               ELSE [ok |-> FALSE, val |-> NaN]
        aum == IF Len(parts) >= 3 THEN ParseFloat(parts[3])
               ELSE [ok |-> FALSE, val |-> NaN]
        failed(e) == [ok |-> FALSE, row |-> <<>>, cause |-> e]
    IN  IF Len(parts) < 2 THEN failed("IndexError")
        ELSE IF ~ret.ok THEN failed("ValueError")
        ELSE IF Len(parts) < 3 THEN failed("IndexError")
        ELSE IF ~aum.ok THEN failed("ValueError")
        ELSE IF Len(parts) < 4 THEN failed("IndexError")
        ELSE [ok |-> TRUE,
              row |-> [c \in Range(Canonical) |->
                         CASE c = "fund_name" -> Str(parts[1])
                           [] c = "return" -> Div100(ret.val)
                           [] c = "aum" -> aum.val
                           [] c = "strategy" -> Str(parts[4])],
              cause |-> ""]

(***************************************************************************)
(* 4. Excel parser                                                         *)
(***************************************************************************)
\* col.strip().lower().replace(" ", "_")
NormalizeHeader(col) == Replace(Lower(Strip(col)), " ", "_")

FundAliases == <<"fund_name", "fund">>
ReturnAliases == <<"weekly_return_(%)", "weekly_return", "return", "performance">>
AumAliases == <<"aum", "aum_(m_usd)", "net_assets", "assets">>
StrategyAliases == <<"strategy", "strat", "approach">>

\* pd.read_excel(file) with the columns renamed: the header names of a sheet
\* are taken to be strings, distinct after normalisation
ReadExcel(table) ==
    LET cols == [k \in 1..Len(table.columns) |-> NormalizeHeader(table.columns[k])]
    IN  [columns |-> cols,
         rows |-> [r \in 1..Len(table.rows) |->
                     [c \in Range(cols) |->
                         table.rows[r][CHOOSE k \in 1..Len(cols) : cols[k] = c]]]]

\* Series.astype(float) of one value
AsFloat(v) == IF v.t = "str" THEN ParseFloat(v.s) ELSE [ok |-> TRUE, val |-> v]

Raised(cause) == [ok |-> FALSE, df |-> DataFrame(<<>>), cause |-> cause]
Returned(df) == [ok |-> TRUE, df |-> df, cause |-> [kind |-> ""]]

\* lines 65-69, applied to the frame that has its "return" column
AssignRest(df, fund_col, aum_col, strat_col) ==
    LET d2 == SetColumn(df, "fund_name", Column(df, fund_col))
        d3 == SetColumn(d2, "strategy", Column(d2, strat_col))
    IN  Project(SetColumn(d3, "aum",
                          IF aum_col # None THEN Column(d3, aum_col)
                          ELSE [k \in 1..Len(df.rows) |-> NaN]),
                Canonical)

\* lines 64-69
AssignColumns(df, rets, fund_col, aum_col, strat_col) ==
    IF \E k \in 1..Len(rets) : ~rets[k].ok
    THEN Raised([kind |-> "ValueError"])
    ELSE Returned(AssignRest(SetColumn(df, "return",
                                       [k \in 1..Len(rets) |-> Div100(rets[k].val)]),
                             fund_col, aum_col, strat_col))

\* a check that requires the AUM column as well
CheckRequiredAndAum(df, fund_col, ret_col, aum_col, strat_col) ==
    IF fund_col = None \/ ret_col = None \/ strat_col = None \/ aum_col = None
    THEN Raised([kind |-> "Missing required columns",
                 fund |-> fund_col, return |-> ret_col, strategy |-> strat_col])
    ELSE AssignColumns(df, [k \in 1..Len(df.rows) |-> AsFloat(df.rows[k][ret_col])],
                       fund_col, aum_col, strat_col)

\* lines 61-69
CheckRequired(df, fund_col, ret_col, aum_col, strat_col) ==
    IF fund_col = None \/ ret_col = None \/ strat_col = None
    THEN Raised([kind |-> "Missing required columns",
                 fund |-> fund_col, return |-> ret_col, strategy |-> strat_col])
    ELSE AssignColumns(df, [k \in 1..Len(df.rows) |-> AsFloat(df.rows[k][ret_col])],
                       fund_col, aum_col, strat_col)

\* lines 54-69
Resolve(df) ==
    CheckRequired(df,
                  match_column(FundAliases, df.columns),
                  match_column(ReturnAliases, df.columns),
                  match_column(AumAliases, df.columns),
                  match_column(StrategyAliases, df.columns))

\* def extract_excel_data(file): the frame returned, or the exception raised
\* (the parameter is called upload here, file being the loop variable below)
extract_excel_data(upload) ==
    IF ~upload.readable THEN Raised([kind |-> "ReadError"])
    ELSE Resolve(ReadExcel(upload.table))

(***************************************************************************)
(* 6. Aggregation and grouped views                                        *)
(***************************************************************************)
RECURSIVE Flatten(_)
Flatten(seqs) ==
    IF Len(seqs) = 0 THEN <<>> ELSE Head(seqs) \o Flatten(Tail(seqs))

\* the column names of the frames, in order of first appearance
RECURSIVE ColumnUnion(_)
ColumnUnion(frames) ==
    IF Len(frames) = 0 THEN <<>>
    ELSE LET before == ColumnUnion(SubSeq(frames, 1, Len(frames) - 1))
             last == frames[Len(frames)].columns
         IN  before \o SelectSeq(last, LAMBDA c : c \notin Range(before))

\* a concatenation that puts the newest frame first
ConcatNewestFirst(frames) ==
    LET cols == ColumnUnion(frames)
        rows == Flatten([k \in 1..Len(frames) |-> frames[Len(frames) + 1 - k].rows])
    IN  [columns |-> cols,
         rows |-> [k \in 1..Len(rows) |->
                     [c \in Range(cols) |->
                         IF c \in DOMAIN rows[k] THEN rows[k][c] ELSE NaN]]]

\* pd.concat(frames, ignore_index=True): the rows in order, a column a frame
\* lacks filled with NaN
Concat(frames) ==
    LET cols == ColumnUnion(frames)
        rows == Flatten([k \in 1..Len(frames) |-> frames[k].rows])
    IN  [columns |-> cols,
         rows |-> [k \in 1..Len(rows) |->
                     [c \in Range(cols) |->
                         IF c \in DOMAIN rows[k] THEN rows[k][c] ELSE NaN]]]

\* return * aum of one row; the product carries Scale * Scale
Times(ret, aum) ==
    IF ret.t = "num" /\ aum.t = "num" THEN Num(ret.n * aum.n) ELSE NaN

\* Line 90 raises KeyError when the concatenation has no "return" column
\* (every frame came from pd.DataFrame([])), and TypeError when a float is
\* multiplied by a string (pandas multiplies the pairs of values of which
\* neither is missing).
NetReturnRaises(df) ==
    \/ "return" \notin Range(df.columns)
    \/ "aum" \notin Range(df.columns)
    \/ \E k \in 1..Len(df.rows) :
          df.rows[k]["return"].t = "num" /\ df.rows[k]["aum"].t = "str"

\* combined_df["net_return_usd"] = combined_df["return"] * combined_df["aum"]
WithNetReturn(df) ==
    SetColumn(df, "net_return_usd",
              [k \in 1..Len(df.rows) |-> Times(df.rows[k]["return"], df.rows[k]["aum"])])

RECURSIVE SumNum(_)
SumNum(cells) ==
    IF Len(cells) = 0 THEN 0
    ELSE (IF Head(cells).t = "num" THEN Head(cells).n ELSE 0) + SumNum(Tail(cells))

\* df.groupby(key): the rows of each key, in order; rows whose key is
\* missing belong to no group
GroupKeys(df, key) == {df.rows[k][key] : k \in 1..Len(df.rows)} \ {NaN}
Group(df, key, g) == SelectSeq(df.rows, LAMBDA r : r[key] = g)

\* df.groupby(key)[col].mean(): the mean of the values of the group that are
\* not missing, as the fraction [sum, n]; NaN (n = 0) when all are missing
GroupMean(df, key, col) ==
    [g \in GroupKeys(df, key) |->
        LET present == SelectSeq(Group(df, key, g), LAMBDA r : r[col].t = "num")
        IN  [sum |-> SumNum([k \in 1..Len(present) |-> present[k][col]]),
             n |-> Len(present)]]

\* df.dropna(subset=[col])
DropNa(df, col) ==
    [columns |-> df.columns, rows |-> SelectSeq(df.rows, LAMBDA r : r[col] # NaN)]

\* df.groupby(key)[col].sum()
GroupSum(df, key, col) ==
    [g \in GroupKeys(df, key) |->
        LET rows == Group(df, key, g)
        IN  SumNum([k \in 1..Len(rows) |-> rows[k][col]])]

(***************************************************************************)
(* 1. The uploads.  A file has a name, the page texts its PDF reader       *)
(* extracts or the sheet its spreadsheet reader returns, and whether the   *)
(* reader can read it at all.                                              *)
(***************************************************************************)
NoTable == [columns |-> <<>>, rows |-> <<>>]

Pdf(name, pages) ==
    [name |-> name, readable |-> TRUE, pages |-> pages, table |-> NoTable]
Xlsx(name, columns, rows) ==
    [name |-> name, readable |-> TRUE, pages |-> <<>>,
     table |-> [columns |-> columns, rows |-> rows]]
Unreadable(name) ==
    [name |-> name, readable |-> FALSE, pages |-> <<>>, table |-> NoTable]

\* a table with header and separator, a malformed row between two good ones
FundsPdf ==
    Pdf("funds.pdf",
        <<"Fund Name | Return | AUM | Strategy\n--- | --- | --- | ---\nAlpha Fund | 5.25% | 120.5 | Long/Short",
          "Beta | n/a | 7 | Macro\nGamma | -2% | 30 | Macro">>)
\* no table at all
LetterPdf == Pdf("letter.pdf", <<"Quarterly letter", "no tables here">>)
\* rows with an empty name, an empty strategy, too few fields, a nan return
PartialPdf ==
    Pdf("partial.pdf",
        <<" | 3% | 10 | Macro\nDelta | 4% | 5 | \nShort | 1%\nEps | nan | 10 | Macro">>)
BrokenPdf == Unreadable("broken.pdf")

BookXlsx ==
    Xlsx("book.xlsx",
         <<"Fund Name", "Weekly Return (%)", "AUM (M USD)", "Strategy">>,
         << <<Str("Alpha Fund"), Num(2 * Scale), Num(100 * Scale), Str("Macro")>>,
            <<Str("Zeta"), Num(4 * Scale), NaN, Str("Macro")>> >>)
\* no column like AUM
NoAumXlsx ==
    Xlsx("noaum.xlsx",
         <<"Fund", " Return ", "Strat", "Notes">>,
         << <<Str("Alpha Fund"), Num(6 * Scale), Str("Macro"), Str("new")>>,
            <<Str("Eta"), Str("1.5"), Str("Credit"), NaN>> >>)
\* no column like the fund name
NoFundXlsx ==
    Xlsx("nofund.xlsx",
         <<"Return", "Strategy", "AUM">>,
         << <<Num(1 * Scale), Str("Macro"), Num(5 * Scale)>> >>)
\* a return that is no number
BadReturnXlsx ==
    Xlsx("badreturn.xlsx",
         <<"fund", "return", "strategy", "aum">>,
         << <<Str("Theta"), Num(1 * Scale), Str("Macro"), Num(5 * Scale)>>,
            <<Str("Iota"), Str("tbd"), Str("Macro"), Num(5 * Scale)>> >>)
\* empty cells in the name, return and strategy columns
BlanksXlsx ==
    Xlsx("blanks.xlsx",
         <<"fund", "return", "strategy", "aum">>,
         << <<NaN, Num(3 * Scale), Str("Macro"), Num(20 * Scale)>>,
            <<Str("Alpha Fund"), NaN, Str("Macro"), Num(40 * Scale)>>,
            <<Str("Kappa"), Num(1 * Scale), NaN, Num(60 * Scale)>> >>)
\* text in the AUM column
TextAumXlsx ==
    Xlsx("textaum.xlsx",
         <<"fund", "return", "strategy", "aum">>,
         << <<Str("Lambda"), Num(2 * Scale), Str("Credit"), Str("tbd")>> >>)
\* a header row only
HeaderOnlyXlsx == Xlsx("headeronly.xlsx", <<"fund", "return", "strategy", "aum">>, <<>>)
BrokenXlsx == Unreadable("broken.xlsx")
\* the uploader accepts the extension in any case
UpperCasePdf == Pdf("FUNDS.PDF", <<"Mu | 1% | 1 | Macro">>)

Files ==
    {FundsPdf, LetterPdf, PartialPdf, BrokenPdf, BookXlsx, NoAumXlsx, NoFundXlsx,
     BadReturnXlsx, BlanksXlsx, TextAumXlsx, HeaderOnlyXlsx, BrokenXlsx, UpperCasePdf}

\* the number of files of one upload
MaxFiles == 3

\* name.endswith(suffix)
EndsWith(name, suffix) ==
    Len(name) >= Len(suffix)
    /\ SubSeq(name, Len(name) - Len(suffix) + 1, Len(name)) = suffix

\* the alias lists and the headers the matcher is run on by itself
AliasPool == {"fund_name", "fund", "return"}
ColumnPool == {"fund", "fund_nam", "retrn", "returns", "xyz"}
MaxAliases == 2
MaxColumns == 2

SeqsUpTo(S, n) == UNION {[1..k -> S] : k \in 0..n}

\* extract_excel_data(file) of line 80 for every spreadsheet of the scope,
\* evaluated once
Extracted ==
    [f \in {g \in Files : EndsWith(g.name, ".xlsx")} |-> extract_excel_data(f)]

(***************************************************************************)
(* State                                                                   *)
(***************************************************************************)
VARIABLES
    uploaded_files,      \* the uploads, in upload order
    pc,                  \* "loop", "pdf", "aggregate", "views", "done", "crashed"
    fi,                  \* the position of `file` in uploaded_files
    lines, li, data,     \* extract_pdf_data: the lines, the next line, data
    all_data,            \* the frames of the files processed
    errors,              \* st.error: [file, cause]
    warnings,            \* st.warning: [line, cause]
    combined_df,
    avg_returns, aum_by_strategy, avg_ret_by_strategy,
    info,                \* st.info of line 136 shown
    exception,           \* the uncaught exception, "" when none
    arg_names, arg_columns, matched  \* one call of match_column

pdfVars == <<lines, li, data>>
outVars == <<combined_df, avg_returns, aum_by_strategy, avg_ret_by_strategy, info, exception>>
matchVars == <<arg_names, arg_columns, matched>>
vars == <<uploaded_files, pc, fi, pdfVars, all_data, errors, warnings, outVars, matchVars>>

NotCalled == "<not called>"

InitOutputs ==
    /\ pc = "loop"
    /\ fi = 1
    /\ lines = <<>> /\ li = 1 /\ data = <<>>
    /\ all_data = <<>>
    /\ errors = <<>>
    /\ warnings = <<>>
    /\ combined_df = DataFrame(<<>>)
    /\ avg_returns = <<>> /\ aum_by_strategy = <<>> /\ avg_ret_by_strategy = <<>>
    /\ info = FALSE
    /\ exception = ""

Init ==
    /\ uploaded_files \in SeqsUpTo(Files, MaxFiles)
    /\ InitOutputs
    /\ arg_names = <<>> /\ arg_columns = <<>> /\ matched = NotCalled

file == uploaded_files[fi]

InLoop == pc = "loop" /\ fi <= Len(uploaded_files)

NextFile ==
    /\ fi' = fi + 1
    /\ pc' = "loop"

\* a handler outside the loop: the first failure ends the processing
FailEndsLoop(cause) ==
    /\ errors' = Append(errors, [file |-> file.name, cause |-> cause])
    /\ fi' = Len(uploaded_files) + 1
    /\ pc' = "loop"
    /\ UNCHANGED <<uploaded_files, pdfVars, all_data, warnings, outVars, matchVars>>

\* except Exception as e: st.error(f"Error processing {file.name}: {e}")
Fail(cause) ==
    /\ errors' = Append(errors, [file |-> file.name, cause |-> cause])
    /\ NextFile
    /\ UNCHANGED <<uploaded_files, pdfVars, all_data, warnings, outVars, matchVars>>

\* lines 77-82: neither suffix, continue
SkipFile ==
    /\ InLoop
    /\ ~EndsWith(file.name, ".pdf") /\ ~EndsWith(file.name, ".xlsx")
    /\ NextFile
    /\ UNCHANGED <<uploaded_files, pdfVars, all_data, errors, warnings, outVars, matchVars>>

\* lines 28-31 of extract_pdf_data
OpenPdf ==
    /\ InLoop
    /\ EndsWith(file.name, ".pdf")
    /\ file.readable
    /\ lines' = PdfLines(file.pages)
    /\ li' = 1
    /\ data' = <<>>
    /\ pc' = "pdf"
    /\ UNCHANGED <<uploaded_files, fi, all_data, errors, warnings, outVars, matchVars>>

\* the reader or the text extraction raises
PdfReadError ==
    /\ InLoop
    /\ EndsWith(file.name, ".pdf")
    /\ ~file.readable
    /\ Fail([kind |-> "ReadError"])

Scanning == pc = "pdf" /\ li <= Len(lines)

ScanStep ==
    /\ li' = li + 1
    /\ UNCHANGED <<uploaded_files, pc, fi, lines, all_data, errors, outVars, matchVars>>

\* line 33 false
SkipLine ==
    /\ Scanning
    /\ ~IsCandidate(lines[li])
    /\ ScanStep
    /\ UNCHANGED <<data, warnings>>

\* lines 34-45
AppendRecord ==
    /\ Scanning
    /\ IsCandidate(lines[li])
    /\ ParseLine(lines[li]).ok
    /\ data' = Append(data, ParseLine(lines[li]).row)
    /\ ScanStep
    /\ UNCHANGED warnings

\* a parser that gives up the document at the first malformed line
WarnLineAborts ==
    /\ Scanning
    /\ IsCandidate(lines[li])
    /\ ~ParseLine(lines[li]).ok
    /\ warnings' = Append(warnings,
                          [line |-> lines[li], cause |-> ParseLine(lines[li]).cause])
    /\ li' = Len(lines) + 1
    /\ UNCHANGED <<uploaded_files, pc, fi, lines, all_data, errors, outVars, matchVars>>
    /\ UNCHANGED data

\* lines 46-47
WarnLine ==
    /\ Scanning
    /\ IsCandidate(lines[li])
    /\ ~ParseLine(lines[li]).ok
    /\ warnings' = Append(warnings,
                          [line |-> lines[li], cause |-> ParseLine(lines[li]).cause])
    /\ ScanStep
    /\ UNCHANGED data

\* line 48, then all_data.append(df)
ClosePdf ==
    /\ pc = "pdf" /\ li > Len(lines)
    /\ all_data' = Append(all_data, DataFrame(data))
    /\ NextFile
    /\ UNCHANGED <<uploaded_files, pdfVars, errors, warnings, outVars, matchVars>>

\* lines 79-80 and 83
NormalizeXlsx ==
    /\ InLoop
    /\ ~EndsWith(file.name, ".pdf") /\ EndsWith(file.name, ".xlsx")
    /\ Extracted[file].ok
    /\ all_data' = Append(all_data, Extracted[file].df)
    /\ NextFile
    /\ UNCHANGED <<uploaded_files, pdfVars, errors, warnings, outVars, matchVars>>

\* extract_excel_data raises
XlsxError ==
    /\ InLoop
    /\ ~EndsWith(file.name, ".pdf") /\ EndsWith(file.name, ".xlsx")
    /\ ~Extracted[file].ok
    /\ Fail(Extracted[file].cause)

LoopDone == pc = "loop" /\ fi > Len(uploaded_files)

\* lines 88-90
Aggregate ==
    /\ LoopDone
    /\ Len(all_data) > 0
    /\ ~NetReturnRaises(Concat(all_data))
    /\ combined_df' = WithNetReturn(Concat(all_data))
    /\ pc' = "views"
    /\ UNCHANGED <<uploaded_files, fi, pdfVars, all_data, errors, warnings,
                   avg_returns, aum_by_strategy, avg_ret_by_strategy, info,
                   exception, matchVars>>

\* line 90 raises; nothing catches it
AggregateRaises ==
    /\ LoopDone
    /\ Len(all_data) > 0
    /\ NetReturnRaises(Concat(all_data))
    /\ exception' = IF "return" \notin Range(Concat(all_data).columns)
                    THEN "KeyError" ELSE "TypeError"
    /\ pc' = "crashed"
    /\ UNCHANGED <<uploaded_files, fi, pdfVars, all_data, errors, warnings,
                   combined_df, avg_returns, aum_by_strategy, avg_ret_by_strategy,
                   info, matchVars>>

\* lines 98, 103 and 108 (charts and exports are not modelled)
Views ==
    /\ pc = "views"
    /\ avg_returns' = GroupMean(combined_df, "fund_name", "return")
    /\ aum_by_strategy' = GroupSum(DropNa(combined_df, "aum"), "strategy", "aum")
    /\ avg_ret_by_strategy' = GroupMean(combined_df, "strategy", "return")
    /\ pc' = "done"
    /\ UNCHANGED <<uploaded_files, fi, pdfVars, all_data, errors, warnings,
                   combined_df, info, exception, matchVars>>

\* lines 135-136
NoData ==
    /\ LoopDone
    /\ Len(all_data) = 0
    /\ info' = TRUE
    /\ pc' = "done"
    /\ UNCHANGED <<uploaded_files, fi, pdfVars, all_data, errors, warnings,
                   combined_df, avg_returns, aum_by_strategy, avg_ret_by_strategy,
                   exception, matchVars>>

Next ==
    \/ SkipFile \/ OpenPdf \/ PdfReadError
    \/ SkipLine \/ AppendRecord \/ WarnLine \/ ClosePdf
    \/ NormalizeXlsx \/ XlsxError
    \/ Aggregate \/ AggregateRaises \/ Views \/ NoData

Spec == Init /\ [][Next]_vars

(***************************************************************************)
(* The matcher by itself, on any alias list and any headers                *)
(***************************************************************************)
InitMatch ==
    /\ uploaded_files = <<>>
    /\ InitOutputs
    /\ arg_names \in SeqsUpTo(AliasPool, MaxAliases)
    /\ arg_columns \in SeqsUpTo(ColumnPool, MaxColumns)
    /\ matched = NotCalled

CallMatchColumn ==
    /\ matched = NotCalled
    /\ matched' = match_column(arg_names, arg_columns)
    /\ UNCHANGED <<uploaded_files, pc, fi, pdfVars, all_data, errors, warnings,
                   outVars, arg_names, arg_columns>>

NextMatch == CallMatchColumn

SpecMatch == InitMatch /\ [][NextMatch]_vars

(***************************************************************************)
(* Properties.  What a file is expected to contribute is stated from its   *)
(* content, without the loop.                                              *)
(***************************************************************************)
IsPdf(f) == EndsWith(f.name, ".pdf")
IsXlsx(f) == ~IsPdf(f) /\ EndsWith(f.name, ".xlsx")

\* the lines of the PDFs of the scope, and for each whether it is a
\* candidate and what parsing it gives
ScopeLines ==
    UNION {Range(PdfLines(f.pages)) : f \in {g \in Files : IsPdf(g) /\ g.readable}}
LineOutcome ==
    [l \in ScopeLines |-> [candidate |-> IsCandidate(l), parsed |-> ParseLine(l)]]
Candidates(ls) == SelectSeq(ls, LAMBDA l : LineOutcome[l].candidate)
GoodLines(ls) == SelectSeq(Candidates(ls), LAMBDA l : LineOutcome[l].parsed.ok)
BadLines(ls) == SelectSeq(Candidates(ls), LAMBDA l : ~LineOutcome[l].parsed.ok)
RecordsOf(ls) == [k \in 1..Len(GoodLines(ls)) |-> LineOutcome[GoodLines(ls)[k]].parsed.row]
WarningsOf(ls) ==
    [k \in 1..Len(BadLines(ls)) |->
        [line |-> BadLines(ls)[k], cause |-> LineOutcome[BadLines(ls)[k]].parsed.cause]]

\* what each file of the scope is expected to give: whether its function
\* returns or raises, the frame returned and the lines warned about
Expected ==
    [f \in Files |->
        IF IsPdf(f)
        THEN LET ls == IF f.readable THEN PdfLines(f.pages) ELSE <<>>
             IN  [succeeds |-> f.readable, fails |-> ~f.readable, lines |-> ls,
                  frame |-> DataFrame(RecordsOf(ls)), warnings |-> WarningsOf(ls)]
        ELSE IF IsXlsx(f)
        THEN [succeeds |-> extract_excel_data(f).ok, fails |-> ~extract_excel_data(f).ok,
              lines |-> <<>>,
              frame |-> extract_excel_data(f).df, warnings |-> <<>>]
        ELSE [succeeds |-> FALSE, fails |-> FALSE, lines |-> <<>>,
              frame |-> DataFrame(<<>>), warnings |-> <<>>]]
Succeeds(f) == Expected[f].succeeds
Fails(f) == Expected[f].fails

\* the frame and the records of a file that succeeds
FrameOf(f) == Expected[f].frame
RecordsOfFiles(fs) ==
    Flatten([k \in 1..Len(fs) |-> IF Succeeds(fs[k]) THEN FrameOf(fs[k]).rows ELSE <<>>])
WarningsOfFiles(fs) ==
    Flatten([k \in 1..Len(fs) |-> Expected[fs[k]].warnings])

\* the files the loop has finished with
Processed == SubSeq(uploaded_files, 1, fi - 1)

Aggregated == pc \in {"views", "done"} /\ ~info

CanonicalPart(row) == [c \in Range(Canonical) |-> row[c]]

NonEmptyText(v) == v.t = "str" /\ v.s # ""

\* C1: every record of the combined dataset has a non-empty fund_name, a
\* non-empty strategy and a numeric return.
C1_RecordsAreValid ==
    Aggregated =>
        \A k \in 1..Len(combined_df.rows) :
            /\ NonEmptyText(combined_df.rows[k]["fund_name"])
            /\ NonEmptyText(combined_df.rows[k]["strategy"])
            /\ combined_df.rows[k]["return"].t = "num"

\* C2: no run ends in an uncaught failure, and when no file yields a record
\* the aggregation and the views are skipped and the notice is shown.
C2_NoFatalCondition ==
    /\ pc # "crashed" /\ exception = ""
    /\ (pc \in {"views", "done"} /\ RecordsOfFiles(uploaded_files) = <<>>) =>
           (pc = "done" /\ info /\ avg_returns = <<>>)

\* C3: while a PDF is scanned, the records are those of the well-formed
\* candidate lines seen so far, in line order, the warnings are those of the
\* malformed candidate lines seen so far, each with its line, and records
\* plus warnings count the candidate lines; the scan goes on after a warning.
C3_LineIsolation ==
    LET seen == IF pc = "pdf" THEN SubSeq(lines, 1, li - 1) ELSE <<>>
    IN  /\ warnings = WarningsOfFiles(Processed) \o WarningsOf(seen)
        /\ pc = "pdf" =>
              /\ lines = Expected[file].lines
              /\ li <= Len(lines) + 1
              /\ data = RecordsOf(seen)
              /\ Len(data) + Len(WarningsOf(seen)) = Len(Candidates(seen))

\* a warning has been recorded for a line between two lines that gave records
C3_Witness ==
    /\ pc = "pdf" /\ li > Len(lines)
    /\ \E a, b, c \in 1..Len(lines) :
          /\ a < b /\ b < c
          /\ data = <<ParseLine(lines[a]).row, ParseLine(lines[c]).row>>
          /\ IsCandidate(lines[b]) /\ ~ParseLine(lines[b]).ok
          /\ warnings[Len(warnings)].line = lines[b]

\* C4: there is one error per failing file, naming it, in file order, and
\* the frames accumulated are those of the other files, as if the failing
\* files were not in the upload.
C4_FileIsolation ==
    LET failing == SelectSeq(Processed, Fails)
        others == SelectSeq(Processed, Succeeds)
    IN  /\ [k \in 1..Len(errors) |-> errors[k].file]
              = [k \in 1..Len(failing) |-> failing[k].name]
        /\ all_data = [k \in 1..Len(others) |-> FrameOf(others[k])]

\* a failing file between two files that contributed records
C4_Witness ==
    /\ pc = "loop" /\ fi = 4 /\ Len(uploaded_files) = 3
    /\ Succeeds(uploaded_files[1]) /\ Fails(uploaded_files[2]) /\ Succeeds(uploaded_files[3])
    /\ Len(errors) = 1 /\ errors[1].file = uploaded_files[2].name
    /\ Len(all_data) = 2
    /\ Len(all_data[1].rows) > 0 /\ Len(all_data[2].rows) > 0

\* the columns an alias accepts, and the aliases that accept one
Accepted(alias, columns) ==
    {c \in Range(columns) : AtLeastCutoff(Ratio(c, Lower(alias)))}
Closest(alias, columns) ==
    {c \in Accepted(alias, columns) :
        \A d \in Range(columns) : ~RatioLess(Ratio(c, Lower(alias)), Ratio(d, Lower(alias)))}
FirstAccepting(aliases, columns) ==
    Min({k \in 1..Len(aliases) : Accepted(aliases[k], columns) # {}})

\* C5: match_column returns a closest accepted column of the earliest alias
\* that accepts any column, and None exactly when no alias accepts a column.
C5_GreedyByAliasPriority ==
    matched # NotCalled =>
        LET accepting == {k \in 1..Len(arg_names) :
                             Accepted(arg_names[k], arg_columns) # {}}
        IN  /\ matched = None <=> accepting = {}
            /\ matched # None =>
                  matched \in Closest(arg_names[FirstAccepting(arg_names,
                                                                    arg_columns)],
                                      arg_columns)

\* the first alias wins although the second alias has a closer column
C5_Witness ==
    /\ matched \notin {NotCalled, None}
    /\ Len(arg_names) = 2
    /\ matched \in Accepted(arg_names[1], arg_columns)
    /\ \E c \in Accepted(arg_names[2], arg_columns) :
          /\ c # matched
          /\ RatioLess(Ratio(matched, Lower(arg_names[1])),
                       Ratio(c, Lower(arg_names[2])))

Resolvable(aliases, columns) ==
    \E k \in 1..Len(aliases) : Accepted(aliases[k], columns) # {}

\* for every readable spreadsheet of the scope, which fields resolve
Resolves ==
    [f \in {g \in Files : IsXlsx(g) /\ g.readable} |->
        [fund |-> Resolvable(FundAliases, ReadExcel(f.table).columns),
         return |-> Resolvable(ReturnAliases, ReadExcel(f.table).columns),
         strategy |-> Resolvable(StrategyAliases, ReadExcel(f.table).columns),
         aum |-> Resolvable(AumAliases, ReadExcel(f.table).columns)]]

MissingColumns(e) == e.cause.kind = "Missing required columns"

\* C6: a readable spreadsheet is rejected for missing columns exactly when
\* the fund name, return or strategy column does not resolve; the error
\* names the unresolved fields, and the file adds nothing to all_data.
C6_SchemaError ==
    [][(InLoop /\ IsXlsx(file) /\ file.readable) =>
        LET fund == Resolves[file].fund
            ret == Resolves[file].return
            strat == Resolves[file].strategy
            rejected == /\ Len(errors') = Len(errors) + 1
                        /\ errors'[Len(errors')].file = file.name
                        /\ MissingColumns(errors'[Len(errors')])
        IN  /\ rejected <=> ~(fund /\ ret /\ strat)
            /\ rejected =>
                  /\ all_data' = all_data
                  /\ errors'[Len(errors')].cause.fund = None <=> ~fund
                  /\ errors'[Len(errors')].cause.return = None <=> ~ret
                  /\ errors'[Len(errors')].cause.strategy = None <=> ~strat]_vars

\* a sheet with return and strategy columns and no fund name column has been
\* rejected and has added no frame
C6_Witness ==
    /\ Len(errors) = 1 /\ fi = 2 /\ pc = "loop"
    /\ MissingColumns(errors[1])
    /\ errors[1].cause.fund = None
    /\ errors[1].cause.return # None /\ errors[1].cause.strategy # None
    /\ all_data = <<>>

AumUnresolved(f) ==
    /\ IsXlsx(f) /\ f.readable
    /\ ~Resolves[f].aum
    /\ Resolves[f].fund /\ Resolves[f].return /\ Resolves[f].strategy

\* C7: a spreadsheet without an AUM column gives one record per row with aum
\* absent, and in the combined dataset net_return_usd is present exactly for
\* the records whose aum is present, where it is return * aum.
C7_OptionalAum ==
    /\ \A k \in 1..Len(Processed) :
          AumUnresolved(Processed[k]) =>
              /\ Succeeds(Processed[k])
              /\ Len(FrameOf(Processed[k]).rows) = Len(Processed[k].table.rows)
              /\ \A r \in Range(FrameOf(Processed[k]).rows) : r["aum"] = NaN
    /\ Aggregated =>
          \A k \in 1..Len(combined_df.rows) :
              LET row == combined_df.rows[k]
              IN  /\ row["net_return_usd"] # NaN <=> row["aum"] # NaN
                  /\ row["aum"] # NaN =>
                        row["net_return_usd"] = Times(row["return"], row["aum"])

HasPipe(line) == \E k \in 1..Len(line) : Char(line, k) = "|"
HasSentinel(line) == Contains(line, "Fund Name") \/ Contains(line, "---")

\* C8: a scanned line adds a record or a warning only if it has a pipe and
\* neither sentinel; any other line changes neither data nor warnings.
C8_OnlyCandidatesCount ==
    [][Scanning =>
        \/ HasPipe(lines[li]) /\ ~HasSentinel(lines[li])
        \/ data' = data /\ warnings' = warnings]_vars

\* the header and the separator of a table were scanned and left no trace
C8_Witness ==
    /\ pc = "pdf" /\ li = 3
    /\ HasPipe(lines[1]) /\ Contains(lines[1], "Fund Name")
    /\ HasPipe(lines[2]) /\ Contains(lines[2], "---")
    /\ data = <<>> /\ warnings = <<>>

\* C9: the records accumulated after any number of files are the records of
\* those files in upload order, and the combined dataset holds the records
\* of all files in that order.
C9_Concatenation ==
    /\ Flatten([k \in 1..Len(all_data) |-> all_data[k].rows]) = RecordsOfFiles(Processed)
    /\ Aggregated =>
          [k \in 1..Len(combined_df.rows) |-> CanonicalPart(combined_df.rows[k])]
              = RecordsOfFiles(uploaded_files)

\* two files with different records were combined
C9_Witness ==
    /\ Aggregated
    /\ Len(all_data) >= 2
    /\ Len(all_data[1].rows) > 0 /\ Len(all_data[2].rows) > 0
    /\ all_data[1].rows # all_data[2].rows

Count(rows, key, g) == Len(SelectSeq(rows, LAMBDA r : r[key] = g))
Total(rows, key, g, col) ==
    LET group == SelectSeq(rows, LAMBDA r : r[key] = g)
    IN  SumNum([k \in 1..Len(group) |-> group[k][col]])

\* C10: every record is in the group of its fund_name and of its strategy,
\* the mean return of a key averages all records of that key, and the AUM
\* total of a strategy sums the records of that strategy whose aum is present.
C10_GroupedViews ==
    (pc = "done" /\ ~info) =>
        LET rows == combined_df.rows
        IN  \A k \in 1..Len(rows) :
                /\ rows[k]["fund_name"] \in DOMAIN avg_returns
                /\ avg_returns[rows[k]["fund_name"]]
                      = [sum |-> Total(rows, "fund_name", rows[k]["fund_name"], "return"),
                         n |-> Count(rows, "fund_name", rows[k]["fund_name"])]
                /\ rows[k]["strategy"] \in DOMAIN avg_ret_by_strategy
                /\ avg_ret_by_strategy[rows[k]["strategy"]]
                      = [sum |-> Total(rows, "strategy", rows[k]["strategy"], "return"),
                         n |-> Count(rows, "strategy", rows[k]["strategy"])]
                /\ rows[k]["aum"] # NaN =>
                      /\ rows[k]["strategy"] \in DOMAIN aum_by_strategy
                      /\ aum_by_strategy[rows[k]["strategy"]]
                            = Total(rows, "strategy", rows[k]["strategy"], "aum")
====
